---- MODULE Spec2Model ----
(***************************************************************************)
(* A model of the MCCFR trainer of BoerenbridgeAI (src/MCCFR.py): the      *)
(* information-set store, the chance-sampled and external-sampled CFR      *)
(* traversals, the exact evaluator and the exploitability estimator.       *)
(*                                                                         *)
(* Python floats are modelled as exact rationals <<numerator, denominator>>*)
(* in lowest terms.  The recursion of chance_cfr and external_cfr is an    *)
(* explicit stack of frames, one frame per active call; evaluate_helper,   *)
(* which draws nothing at random, is a recursive operator.                 *)
(***************************************************************************)
EXTENDS Integers, Sequences, FiniteSets, TLC

(***************************************************************************)
(* Bounds of the model.                                                    *)
(***************************************************************************)
\* Largest deck of the games the evaluator is run on.
MaxDeck == 5
\* Work in one behaviour of the four-card, two-cards-a-hand game: a call of
\* a public operation is one unit, a root traversal is one more.
MaxWork == 3
\* Work in one behaviour of the two-card, one-card-a-hand game.
MaxWorkSmall == 6
\* Work in one behaviour of any other game: these are only evaluated.
MaxWorkDeal == 1

(***************************************************************************)
(* Exact rational arithmetic, standing for Python's float arithmetic.      *)
(***************************************************************************)
Abs(x) == IF x < 0 THEN -x ELSE x

RECURSIVE GCD(_, _)
GCD(a, b) == IF b = 0 THEN a ELSE GCD(b, a % b)

Norm(n, d) ==
    LET g == GCD(Abs(n), d)
    IN  IF n = 0 THEN <<0, 1>> ELSE <<n \div g, d \div g>>

RInt(i) == <<i, 1>>
RZero == <<0, 1>>
ROne == <<1, 1>>
RAdd(a, b) == Norm(a[1] * b[2] + b[1] * a[2], a[2] * b[2])
RNeg(a) == <<-a[1], a[2]>>
RSub(a, b) == RAdd(a, RNeg(b))
RMul(a, b) == Norm(a[1] * b[1], a[2] * b[2])
RDiv(a, b) ==
    IF b[1] > 0 THEN Norm(a[1] * b[2], a[2] * b[1])
                ELSE Norm(-(a[1] * b[2]), a[2] * (-b[1]))
RPos(a) == a[1] > 0

RECURSIVE RSum(_)
RSum(s) == IF s = <<>> THEN RZero ELSE RAdd(Head(s), RSum(Tail(s)))

\* numpy's a.dot(b)
Dot(a, b) == RSum([i \in 1..Len(a) |-> RMul(a[i], b[i])])

Zeros(n) == [i \in 1..n |-> RZero]

(***************************************************************************)
(* The game (GameInterface): a two-player trick-taking game.  Cards are    *)
(* the numbers of deck2; the lower half of the deck is trumps.  Player 0   *)
(* leads the first trick, the winner of a trick leads the next one, and    *)
(* the payoff is the difference of the tricks won, seen from the player    *)
(* of the state.                                                           *)
(***************************************************************************)
Deck(n) == [i \in 1..n |-> i]

\* The games of the model: every deck of 2..MaxDeck cards, every hand size
\* that two players can be dealt from it.
Games ==
    {g \in {[deck2 |-> Deck(n), handsize |-> h] :
                n \in 2..MaxDeck, h \in 1..MaxDeck} :
        2 * g.handsize <= Len(g.deck2)}

IsTrump(g, c) == c <= Len(g.deck2) \div 2

\* The reply beats the lead.
Beats(g, lead, reply) ==
    IF IsTrump(g, reply) = IsTrump(g, lead) THEN reply > lead
    ELSE IsTrump(g, reply)

Remove(s, c) == SelectSeq(s, LAMBDA x : x # c)

sample_new_game(hands) ==
    [player |-> 0, hands |-> hands, history |-> <<>>,
     terminal |-> (hands[1] = <<>> /\ hands[2] = <<>>), payoff |-> 0]

get_possible_actions(game_state) == game_state.hands[game_state.player + 1]

get_next_game_state(g, game_state, action) ==
    LET p == game_state.player
        o == (p + 1) % 2
        hands == [game_state.hands EXCEPT ![p + 1] = Remove(@, action)]
        hist == Append(game_state.history, action)
        lead == game_state.history[Len(game_state.history)]
        won == Beats(g, lead, action)
        done == hands[1] = <<>> /\ hands[2] = <<>>
    IN  IF Len(game_state.history) % 2 = 0
        THEN [player |-> o, hands |-> hands, history |-> hist,
              terminal |-> FALSE, payoff |-> -game_state.payoff]
        ELSE IF won
        THEN [player |-> p, hands |-> hands, history |-> hist,
              terminal |-> done, payoff |-> game_state.payoff + 1]
        ELSE [player |-> o, hands |-> hands, history |-> hist,
              terminal |-> done, payoff |-> -(game_state.payoff - 1)]

get_payoff(game_state) == RInt(game_state.payoff)

translate_suits(game_state) ==
    <<game_state.hands[game_state.player + 1], game_state.history>>

\* The identity abstraction.
abstraction_function(new_hand, new_hist, possible_action) ==
    <<new_hand, new_hist>>

SeqToSet(s) == {s[i] : i \in 1..Len(s)}

(***************************************************************************)
(* math.comb and itertools.combinations.                                   *)
(***************************************************************************)
RECURSIVE comb(_, _)
comb(n, k) ==
    IF k < 0 \/ k > n THEN 0
    ELSE IF k = 0 THEN 1
    ELSE (comb(n - 1, k - 1) * n) \div k

RECURSIVE combinations(_, _)
combinations(s, r) ==
    IF r = 0 THEN << <<>> >>
    ELSE IF Len(s) < r THEN <<>>
    ELSE LET with == combinations(Tail(s), r - 1)
         IN  [i \in 1..Len(with) |-> <<Head(s)>> \o with[i]]
             \o combinations(Tail(s), r)

(***************************************************************************)
(* Infoset (Infoset.py): the cumulative regrets and the strategy sum of    *)
(* one information set, both sized by the action count of its key.         *)
(***************************************************************************)
Infoset(info_key) ==
    [cumulative_regrets |-> Zeros(info_key[4]),
     strategy_sum |-> Zeros(info_key[4])]

Uniform(n) == [i \in 1..n |-> <<1, n>>]

\* v / sum(v) when the sum is positive, uniform otherwise.
Normalise(v) ==
    LET total == RSum(v)
    IN  IF RPos(total) THEN [i \in 1..Len(v) |-> RDiv(v[i], total)]
        ELSE Uniform(Len(v))

regret_matching(infoset) ==
    Normalise([i \in 1..Len(infoset.cumulative_regrets) |->
        IF RPos(infoset.cumulative_regrets[i])
        THEN infoset.cumulative_regrets[i] ELSE RZero])

get_average_strategy(infoset) == Normalise(infoset.strategy_sum)

update_strategy_sum(infoset, strategy, reach_prob) ==
    [infoset EXCEPT !.strategy_sum =
        [i \in 1..Len(@) |-> RAdd(@[i], RMul(reach_prob, strategy[i]))]]

(***************************************************************************)
(* The store: a dictionary from info keys to infosets.                     *)
(***************************************************************************)
EmptyDict == <<>>

\* A creation that replaces the dictionary by one holding the new key alone.
get_infoset_mut(dict, info_key) ==
    IF info_key \notin DOMAIN dict THEN (info_key :> Infoset(info_key))
    ELSE dict

\* The dictionary after get_infoset(info_key); the infoset is dict[info_key].
get_infoset(dict, info_key) ==
    IF info_key \notin DOMAIN dict THEN dict @@ (info_key :> Infoset(info_key))
    ELSE dict

\* The key sized by the cards still held by both players, not by the
\* possible actions.
get_info_key_mut(game_state) ==
    LET possible_action == get_possible_actions(game_state)
        new == translate_suits(game_state)
        abs == abstraction_function(new[1], new[2], possible_action)
    IN  <<game_state.player, SeqToSet(abs[1]), abs[2],
          Len(game_state.hands[1]) + Len(game_state.hands[2])>>

get_info_key(game_state) ==
    LET possible_action == get_possible_actions(game_state)
        possible_action_len == Len(possible_action)
        new == translate_suits(game_state)
        abs == abstraction_function(new[1], new[2], possible_action)
    IN  <<game_state.player, SeqToSet(abs[1]), abs[2], possible_action_len>>

\* The running sign `payoff` of a node after the transition to
\* next_game_state: set to 1 when the player stays, otherwise left as it is.
payoff_sign(payoff, game_state, next_game_state) ==
    IF game_state.player = next_game_state.player THEN 1 ELSE payoff

\* The sign the perspective convention asks for at one transition.
ExpectedSign(game_state, next_game_state) ==
    IF game_state.player = next_game_state.player THEN 1 ELSE -1

(***************************************************************************)
(* evaluate_helper: the expected utility of a state under the average      *)
(* strategy.  The result carries the dictionary as the call leaves it, and *)
(* two observations of the walk: whether every sign used at a multi-action *)
(* node was the expected one (sign_ok), and whether every infoset fetched  *)
(* had as many entries as the node had actions (count_ok).                 *)
(***************************************************************************)
RECURSIVE evaluate_helper(_, _, _, _)
RECURSIVE evaluate_actions(_, _, _, _, _, _, _)

evaluate_helper(g, dict, game_state, reach_prob) ==
    IF game_state.terminal
    THEN [value |-> get_payoff(game_state), dict |-> dict,
          sign_ok |-> TRUE, count_ok |-> TRUE]
    ELSE
    LET possible_actions == get_possible_actions(game_state)
    IN  IF Len(possible_actions) = 1
        THEN LET next_game_state ==
                     get_next_game_state(g, game_state, possible_actions[1])
                 payoff == payoff_sign(-1, game_state, next_game_state)
                 sub == evaluate_helper(g, dict, next_game_state, reach_prob)
             IN  [sub EXCEPT !.value = RMul(RInt(payoff), @)]
        ELSE LET info_key == get_info_key(game_state)
                 dict1 == get_infoset(dict, info_key)
                 strategy == get_average_strategy(dict1[info_key])
                 acc == evaluate_actions(g, game_state, strategy, reach_prob, 1,
                            -1, [partial_values |-> Zeros(Len(possible_actions)),
                                 dict |-> dict1, sign_ok |-> TRUE,
                                 count_ok |-> TRUE])
             IN  [value |-> Dot(acc.partial_values, strategy),
                  dict |-> acc.dict,
                  sign_ok |-> acc.sign_ok,
                  count_ok |-> acc.count_ok
                      /\ Len(possible_actions) = info_key[4]
                      /\ Len(dict1[info_key].strategy_sum)
                             = Len(possible_actions)]

\* The loop over the actions of a multi-action node, from index ix on.
evaluate_actions(g, game_state, strategy, reach_prob, ix, payoff, acc) ==
    LET possible_actions == get_possible_actions(game_state)
    IN  IF ix > Len(possible_actions) THEN acc
        ELSE
        LET action_prob == strategy[ix]
            new_reach_prob == RMul(reach_prob, action_prob)
            next_game_state ==
                get_next_game_state(g, game_state, possible_actions[ix])
            payoff1 == payoff_sign(payoff, game_state, next_game_state)
            sub == evaluate_helper(g, acc.dict, next_game_state, new_reach_prob)
        IN  evaluate_actions(g, game_state, strategy, reach_prob, ix + 1, payoff1,
                [partial_values |->
                     [acc.partial_values EXCEPT
                         ![ix] = RMul(RInt(payoff1), sub.value)],
                 dict |-> sub.dict,
                 sign_ok |-> acc.sign_ok /\ sub.sign_ok
                     /\ payoff1 = ExpectedSign(game_state, next_game_state),
                 count_ok |-> acc.count_ok /\ sub.count_ok])

\* hand_prob of evaluate: the number of ordered deals.
\* The number of choices of dealt_cards alone.
hand_prob_mut(g) == comb(Len(g.deck2), 2 * g.handsize)

hand_prob(g) ==
    comb(Len(g.deck2), g.handsize)
        * comb(Len(g.deck2) - g.handsize, g.handsize)

\* Python's sorted() on a sequence of distinct cards.
RECURSIVE sorted(_)
sorted(s) ==
    IF s = <<>> THEN <<>>
    ELSE LET m == CHOOSE x \in SeqToSet(s) : \A y \in SeqToSet(s) : x <= y
         IN  <<m>> \o sorted(Remove(s, m))

\* The hands evaluate() builds for one choice of dealt_cards and hand1.
hands_of(dealt_cards, hand1) ==
    LET hand2 == SelectSeq(dealt_cards, LAMBDA c : c \notin SeqToSet(hand1))
    IN  <<sorted(hand1), sorted(hand2)>>

RECURSIVE Flatten(_)
Flatten(ss) == IF ss = <<>> THEN <<>> ELSE Head(ss) \o Flatten(Tail(ss))

\* The deals in the order evaluate()'s two nested loops visit them.
evaluate_deals(g) ==
    LET dealt == combinations(g.deck2, g.handsize * 2)
    IN  Flatten([d \in 1..Len(dealt) |->
            LET firsts == combinations(dealt[d], g.handsize)
            IN  [k \in 1..Len(firsts) |-> hands_of(dealt[d], firsts[k])]])

\* The deals sample_new_game() can draw.
Deals(g) == SeqToSet(evaluate_deals(g))


(***************************************************************************)
(* The state of one MCCFR object and of the call in progress.              *)
(***************************************************************************)
VARIABLES
    game,            \* self.game: the deck and the hand size
    heap,            \* the dictionary objects, by reference
    infoset_dict,    \* self.infoset_dict: a reference into heap
    infoset_data,    \* self.infoset_data[0]: a reference into heap
    info_dict_copy,  \* get_exploitability's snapshot: a reference, or NoRef
    file,            \* the pickle file save_dict writes and load_dict reads
    call,            \* the public operation in progress and its locals
    stack,           \* the active chance_cfr / external_cfr calls
    ret,             \* the value the last finished recursive call returned
    result,          \* what the last public operation returned
    fuel             \* what the bounds still allow in this behaviour

vars ==
    <<game, heap, infoset_dict, infoset_data, info_dict_copy, file, call,
      stack, ret, result, fuel>>

\* Three references can be live at once (infoset_dict, infoset_data[0],
\* info_dict_copy); a fourth is free for the next copy.
Refs == 1..4
NoRef == 0

\* The training game: four cards, two a hand.
TrainGame == [deck2 |-> Deck(4), handsize |-> 2]

\* The smallest game: two cards, one a hand, no choice anywhere.
SmallGame == [deck2 |-> Deck(2), handsize |-> 1]

\* The work allowed in a behaviour of game g.
Budget(g) ==
    IF g = TrainGame THEN MaxWork
    ELSE IF g = SmallGame THEN MaxWorkSmall
    ELSE MaxWorkDeal

\* The games the model trains on; on the others it only evaluates.
Trainable(g) == g \in {TrainGame, SmallGame}

Store == heap[infoset_dict]

\* The heap with every unreferenced dictionary dropped.
Collect(h, live) == [r \in Refs |-> IF r \in live THEN h[r] ELSE EmptyDict]

\* A copy that shares the object.
deepcopy_mut(h, r, live) == [heap |-> h, ref |-> r]

\* copy.deepcopy of the dictionary at r: a new object with equal contents.
deepcopy(h, r, live) ==
    LET n == CHOOSE x \in Refs \ live : \A y \in Refs \ live : x <= y
    IN  [heap |-> [h EXCEPT ![n] = h[r]], ref |-> n]

NoRet == <<>>

IdleCall ==
    [op |-> "idle", phase |-> "", num_iterations |-> 0, iter |-> 0, i |-> 0,
     util |-> RZero, b_1 |-> RZero, deal_ix |-> 0,
     sign_ok |-> TRUE, count_ok |-> TRUE, roots |-> <<>>, visited |-> <<>>,
     entry_dict |-> EmptyDict, trav_entry |-> EmptyDict]

NoResult ==
    [op |-> "none", value |-> RZero, num_iterations |-> 0, roots |-> <<>>,
     entry_dict |-> EmptyDict]

Returned(op, value) ==
    [op |-> op, value |-> value, num_iterations |-> call.num_iterations,
     roots |-> call.roots, entry_dict |-> call.entry_dict]

Init ==
    /\ game \in Games
    /\ heap = [r \in Refs |-> EmptyDict]
    /\ infoset_dict = 1
    /\ infoset_data = 1
    /\ info_dict_copy = NoRef
    /\ file = [exists |-> FALSE, dict |-> EmptyDict]
    /\ call = IdleCall
    /\ stack = <<>>
    /\ ret = NoRet
    /\ result = NoResult
    /\ fuel = Budget(game)

(***************************************************************************)
(* One frame per active call of chance_cfr or external_cfr.  reach_in,     *)
(* nchild and existed observe the call: the reach vector it was entered    *)
(* with, the recursive calls it has made, and whether its infoset was in   *)
(* the store before it was fetched.                                        *)
(***************************************************************************)
Frame(fn, game_state, reach_probs, update_player) ==
    [fn |-> fn, game_state |-> game_state, reach_probs |-> reach_probs,
     update_player |-> update_player, pc |-> "start", payoff |-> -1,
     info_key |-> <<>>, strategy |-> <<>>, ix |-> 0,
     counterfactual_values |-> <<>>,
     reach_in |-> reach_probs, nchild |-> 0, existed |-> FALSE]

Top == stack[Len(stack)]
Pop == SubSeq(stack, 1, Len(stack) - 1)
SetTop(f) == [stack EXCEPT ![Len(stack)] = f]
Running(fn) == stack # <<>> /\ Top.fn = fn
Actions(f) == get_possible_actions(f.game_state)
Opponent(player) == (player + 1) % 2

\* The scaling done in place, without the copy.
new_reach_probs_mut(reach_probs, player, action_prob) ==
    LET scaled == [reach_probs EXCEPT ![player + 1] = RMul(@, action_prob)]
    IN  [reach_probs |-> scaled, new_reach_probs |-> scaled]

\* new_reach_probs = reach_probs.copy(); new_reach_probs[player] *= action_prob:
\* the array the caller keeps and the array it passes on.
new_reach_probs(reach_probs, player, action_prob) ==
    [reach_probs |-> reach_probs,
     new_reach_probs |-> [reach_probs EXCEPT ![player + 1] = RMul(@, action_prob)]]

\* A branch that never samples.
is_sampled_mut(player, update_player) == FALSE

\* external_cfr's branch: the node of the player who is not updated is sampled.
is_sampled(player, update_player) == player # update_player

\* Whether the frame's multi-action node is enumerated (all actions tried).
Enumerated(f) ==
    f.fn = "chance_cfr" \/ ~is_sampled(f.game_state.player, f.update_player)

Unchanged_object == UNCHANGED <<game, infoset_dict, infoset_data, info_dict_copy, file>>
Unchanged_caller == UNCHANGED <<call, result, fuel>>

\* Base case: a terminal state returns its payoff.
cfr_terminal(fn) ==
    /\ Running(fn) /\ Top.pc = "start" /\ Top.game_state.terminal
    /\ ret' = <<get_payoff(Top.game_state)>>
    /\ stack' = Pop
    /\ UNCHANGED heap /\ Unchanged_object /\ Unchanged_caller

\* One possible action: recurse on the only successor, same reach_probs.
cfr_single_call(fn) ==
    /\ Running(fn) /\ Top.pc = "start" /\ ~Top.game_state.terminal
    /\ Len(Actions(Top)) = 1
    /\ LET next_game_state ==
               get_next_game_state(game, Top.game_state, Actions(Top)[1])
       IN  stack' = Append(
               SetTop([Top EXCEPT !.pc = "single", !.nchild = @ + 1,
                   !.payoff = payoff_sign(@, Top.game_state, next_game_state)]),
               Frame(fn, next_game_state, Top.reach_probs, Top.update_player))
    /\ UNCHANGED <<heap, ret>> /\ Unchanged_object /\ Unchanged_caller

cfr_single_return(fn) ==
    /\ Running(fn) /\ Top.pc = "single" /\ ret # NoRet
    /\ ret' = <<RMul(RInt(Top.payoff), ret[1])>>
    /\ stack' = Pop
    /\ UNCHANGED heap /\ Unchanged_object /\ Unchanged_caller

\* Several actions, all enumerated: fetch the infoset, match regrets, add
\* the strategy to the strategy sum.
cfr_enter(fn) ==
    /\ Running(fn) /\ Top.pc = "start" /\ ~Top.game_state.terminal
    /\ Len(Actions(Top)) > 1 /\ Enumerated(Top)
    /\ LET player == Top.game_state.player
           info_key == get_info_key(Top.game_state)
           dict == get_infoset(Store, info_key)
           strategy == regret_matching(dict[info_key])
       IN  /\ heap' = [heap EXCEPT ![infoset_dict] =
                   [dict EXCEPT ![info_key] = update_strategy_sum(
                       @, strategy, Top.reach_probs[player + 1])]]
           /\ stack' = SetTop([Top EXCEPT !.pc = "loop",
                   !.info_key = info_key, !.strategy = strategy, !.ix = 1,
                   !.counterfactual_values = Zeros(Len(Actions(Top))),
                   !.existed = info_key \in DOMAIN Store])
    /\ UNCHANGED ret /\ Unchanged_object /\ Unchanged_caller

\* The loop body up to the recursive call on the action at ix.
cfr_loop_call(fn) ==
    /\ Running(fn) /\ Top.pc = "loop" /\ Top.ix <= Len(Actions(Top))
    /\ LET player == Top.game_state.player
           action_prob == Top.strategy[Top.ix]
           reach == new_reach_probs(Top.reach_probs, player, action_prob)
           next_game_state ==
               get_next_game_state(game, Top.game_state, Actions(Top)[Top.ix])
       IN  stack' = Append(
               SetTop([Top EXCEPT !.pc = "loop_wait", !.nchild = @ + 1,
                   !.reach_probs = reach.reach_probs,
                   !.payoff = payoff_sign(@, Top.game_state, next_game_state)]),
               Frame(fn, next_game_state, reach.new_reach_probs,
                   Top.update_player))
    /\ UNCHANGED <<heap, ret>> /\ Unchanged_object /\ Unchanged_caller

\* The recursive call returned: counterfactual_values[ix] = payoff * value.
cfr_loop_return(fn) ==
    /\ Running(fn) /\ Top.pc = "loop_wait" /\ ret # NoRet
    /\ stack' = SetTop([Top EXCEPT !.pc = "loop", !.ix = @ + 1,
           !.counterfactual_values[Top.ix] = RMul(RInt(Top.payoff), ret[1])])
    /\ ret' = NoRet
    /\ UNCHANGED heap /\ Unchanged_object /\ Unchanged_caller

\* After the loop: the node value and the regret update.
cfr_finish(fn) ==
    /\ Running(fn) /\ Top.pc = "loop" /\ Top.ix > Len(Actions(Top))
    /\ LET opponent == Opponent(Top.game_state.player)
           node_value == Dot(Top.counterfactual_values, Top.strategy)
       IN  /\ heap' = [heap EXCEPT ![infoset_dict][Top.info_key].cumulative_regrets =
                   [ix \in 1..Len(@) |-> RAdd(@[ix],
                       RMul(Top.reach_probs[opponent + 1],
                           RSub(Top.counterfactual_values[ix], node_value)))]]
           /\ ret' = <<node_value>>
    /\ stack' = Pop
    /\ Unchanged_object /\ Unchanged_caller

chance_cfr_terminal == cfr_terminal("chance_cfr")
chance_cfr_single_call == cfr_single_call("chance_cfr")
chance_cfr_single_return == cfr_single_return("chance_cfr")
chance_cfr_enter == cfr_enter("chance_cfr")
chance_cfr_loop_call == cfr_loop_call("chance_cfr")
chance_cfr_loop_return == cfr_loop_return("chance_cfr")
chance_cfr_finish == cfr_finish("chance_cfr")

external_cfr_terminal == cfr_terminal("external_cfr")
external_cfr_single_call == cfr_single_call("external_cfr")
external_cfr_single_return == cfr_single_return("external_cfr")
external_cfr_enter == cfr_enter("external_cfr")
external_cfr_loop_call == cfr_loop_call("external_cfr")
external_cfr_loop_return == cfr_loop_return("external_cfr")
external_cfr_finish == cfr_finish("external_cfr")

\* Several actions at a node of the player who is not updated: fetch the
\* infoset, draw one action by random.choices, recurse on it alone.
external_cfr_sample_call ==
    /\ Running("external_cfr") /\ Top.pc = "start" /\ ~Top.game_state.terminal
    /\ Len(Actions(Top)) > 1 /\ ~Enumerated(Top)
    /\ LET player == Top.game_state.player
           info_key == get_info_key(Top.game_state)
           dict == get_infoset(Store, info_key)
           strategy == regret_matching(dict[info_key])
       IN  /\ heap' = [heap EXCEPT ![infoset_dict] = dict]
           /\ \E action_index \in 1..Len(Actions(Top)) :
                /\ RPos(strategy[action_index])
                /\ LET action == Actions(Top)[action_index]
                       reach == new_reach_probs(Top.reach_probs, player,
                                    strategy[action_index])
                       next_game_state ==
                           get_next_game_state(game, Top.game_state, action)
                   IN  stack' = Append(
                           SetTop([Top EXCEPT !.pc = "sampled",
                               !.nchild = @ + 1, !.info_key = info_key,
                               !.strategy = strategy, !.ix = action_index,
                               !.reach_probs = reach.reach_probs,
                               !.existed = info_key \in DOMAIN Store,
                               !.payoff = payoff_sign(
                                   @, Top.game_state, next_game_state)]),
                           Frame("external_cfr", next_game_state,
                               reach.new_reach_probs, Top.update_player))
    /\ UNCHANGED ret /\ Unchanged_object /\ Unchanged_caller

external_cfr_sample_return ==
    /\ Running("external_cfr") /\ Top.pc = "sampled" /\ ret # NoRet
    /\ ret' = <<RMul(RInt(Top.payoff), ret[1])>>
    /\ stack' = Pop
    /\ UNCHANGED heap /\ Unchanged_object /\ Unchanged_caller


(***************************************************************************)
(* The public operations.  A call of a public operation starts from the    *)
(* idle object and ends by leaving its return value in result.             *)
(***************************************************************************)
Idle == call.op = "idle" /\ stack = <<>> /\ ret = NoRet

\* A public call with `traversals` root traversals ahead begins.
Begin(c, traversals) ==
    /\ Idle /\ 1 + traversals <= fuel
    /\ traversals > 0 => Trainable(game)
    /\ call' = c
    /\ result' = NoResult
    /\ fuel' = fuel - (1 + traversals)

Finish(op, value) ==
    /\ result' = Returned(op, value)
    /\ call' = IdleCall

\* The largest num_iterations any budget allows.
MaxIterations == MaxWork + MaxWorkSmall

\* What a root traversal leaves in call.roots: the player updated, the reach
\* vector passed, whether the state came fresh from sample_new_game, and
\* (once it returns) the value.
Root(update_player, game_state, reach_probs) ==
    [update_player |-> update_player, reach_probs |-> reach_probs,
     fresh |-> game_state \in {sample_new_game(h) : h \in Deals(game)},
     value |-> NoRet]

\* game_state = sample_new_game(); reach_probs = np.ones(2); the root call.
StartTraversal(fn, update_player) ==
    \E hands \in Deals(game) :
        LET game_state == sample_new_game(hands)
            reach_probs == <<ROne, ROne>>
        IN  /\ stack' = <<Frame(fn, game_state, reach_probs, update_player)>>
            /\ call' = [call EXCEPT
                   !.roots = Append(@, Root(update_player, game_state, reach_probs)),
                   !.trav_entry = Store]

train_chance_call(num_iterations) ==
    /\ Begin([IdleCall EXCEPT !.op = "train_chance",
           !.num_iterations = num_iterations], num_iterations)
    /\ UNCHANGED <<heap, stack, ret>> /\ Unchanged_object

train_chance_iter ==
    /\ call.op = "train_chance" /\ stack = <<>> /\ ret = NoRet
    /\ call.iter < call.num_iterations
    /\ StartTraversal("chance_cfr", -1)
    /\ UNCHANGED <<heap, ret, result, fuel>> /\ Unchanged_object

train_chance_util ==
    /\ call.op = "train_chance" /\ stack = <<>> /\ ret # NoRet
    /\ call' = [call EXCEPT !.util = RAdd(@, ret[1]), !.iter = @ + 1,
           !.roots[Len(call.roots)].value = ret]
    /\ ret' = NoRet
    /\ UNCHANGED <<heap, stack, result, fuel>> /\ Unchanged_object

train_chance_return ==
    /\ call.op = "train_chance" /\ stack = <<>> /\ ret = NoRet
    /\ call.iter = call.num_iterations
    /\ Finish("train_chance", RDiv(call.util, RInt(call.num_iterations)))
    /\ UNCHANGED <<heap, stack, ret, fuel>> /\ Unchanged_object

\* The average over the outer iterations alone.
train_external_result_mut(util, num_iterations) ==
    RDiv(util, RInt(num_iterations))

\* util / (num_iterations * 2)
train_external_result(util, num_iterations) ==
    RDiv(util, RInt(num_iterations * 2))

train_external_call(num_iterations) ==
    /\ Begin([IdleCall EXCEPT !.op = "train_external",
           !.num_iterations = num_iterations], 2 * num_iterations)
    /\ UNCHANGED <<heap, stack, ret>> /\ Unchanged_object

\* The body of the two nested loops: the outer counter is iter, the inner i.
train_external_iter ==
    /\ call.op = "train_external" /\ stack = <<>> /\ ret = NoRet
    /\ call.iter < call.num_iterations
    /\ StartTraversal("external_cfr", call.i)
    /\ UNCHANGED <<heap, ret, result, fuel>> /\ Unchanged_object

train_external_util ==
    /\ call.op = "train_external" /\ stack = <<>> /\ ret # NoRet
    /\ call' = [call EXCEPT !.util = RAdd(@, ret[1]),
           !.i = (@ + 1) % 2,
           !.iter = IF call.i = 1 THEN @ + 1 ELSE @,
           !.roots[Len(call.roots)].value = ret]
    /\ ret' = NoRet
    /\ UNCHANGED <<heap, stack, result, fuel>> /\ Unchanged_object

train_external_return ==
    /\ call.op = "train_external" /\ stack = <<>> /\ ret = NoRet
    /\ call.iter = call.num_iterations
    /\ Finish("train_external",
           train_external_result(call.util, call.num_iterations))
    /\ UNCHANGED <<heap, stack, ret, fuel>> /\ Unchanged_object

(***************************************************************************)
(* evaluate(), called by the host or by get_exploitability.                *)
(***************************************************************************)
Evaluating ==
    \/ call.op = "evaluate"
    \/ call.op = "get_exploitability" /\ call.phase \in {"eval1", "eval2"}

EvaluateDone == Evaluating /\ call.deal_ix > Len(evaluate_deals(game))

evaluate_call ==
    /\ Begin([IdleCall EXCEPT !.op = "evaluate", !.deal_ix = 1,
           !.entry_dict = Store], 0)
    /\ UNCHANGED <<heap, stack, ret>> /\ Unchanged_object

\* One pass of the inner loop: one deal, one root call of evaluate_helper.
evaluate_deal ==
    /\ Evaluating /\ ~EvaluateDone
    /\ LET hands == evaluate_deals(game)[call.deal_ix]
           game_state == sample_new_game(hands)
           reach_prob == ROne
           sub == evaluate_helper(game, Store, game_state, reach_prob)
       IN  /\ heap' = [heap EXCEPT ![infoset_dict] = sub.dict]
           /\ call' = [call EXCEPT !.util = RAdd(@, sub.value),
                  !.deal_ix = @ + 1,
                  !.visited = Append(@, hands),
                  !.sign_ok = @ /\ sub.sign_ok,
                  !.count_ok = @ /\ sub.count_ok]
    /\ UNCHANGED <<stack, ret, result, fuel>> /\ Unchanged_object

evaluate_result == RDiv(call.util, RInt(hand_prob(game)))

evaluate_return ==
    /\ call.op = "evaluate" /\ EvaluateDone
    /\ Finish("evaluate", evaluate_result)
    /\ UNCHANGED <<heap, stack, ret, fuel>> /\ Unchanged_object

(***************************************************************************)
(* get_exploitability(num_iterations).                                     *)
(***************************************************************************)
Live == {infoset_dict, infoset_data, info_dict_copy} \ {NoRef}

\* info_dict_copy = deepcopy(self.infoset_dict)
get_exploitability_call(num_iterations) ==
    /\ Begin([IdleCall EXCEPT !.op = "get_exploitability", !.phase = "pass1",
           !.num_iterations = num_iterations, !.entry_dict = Store],
           2 * num_iterations)
    /\ LET copy == deepcopy(heap, infoset_dict, Live)
       IN  /\ heap' = copy.heap
           /\ info_dict_copy' = copy.ref
    /\ UNCHANGED <<game, infoset_dict, infoset_data, file, stack, ret>>

\* The body of either loop: one external_cfr traversal for the pass's player.
get_exploitability_iter ==
    /\ call.op = "get_exploitability" /\ call.phase \in {"pass1", "pass2"}
    /\ stack = <<>> /\ ret = NoRet
    /\ call.iter < call.num_iterations
    /\ StartTraversal("external_cfr", IF call.phase = "pass1" THEN 0 ELSE 1)
    /\ UNCHANGED <<heap, ret, result, fuel>> /\ Unchanged_object

\* The traversal's value is dropped.
get_exploitability_next ==
    /\ call.op = "get_exploitability" /\ stack = <<>> /\ ret # NoRet
    /\ call' = [call EXCEPT !.iter = @ + 1,
           !.roots[Len(call.roots)].value = ret]
    /\ ret' = NoRet
    /\ UNCHANGED <<heap, stack, result, fuel>> /\ Unchanged_object

\* b = self.evaluate(): the evaluation after either pass begins.
get_exploitability_evaluate ==
    /\ call.op = "get_exploitability" /\ call.phase \in {"pass1", "pass2"}
    /\ stack = <<>> /\ ret = NoRet
    /\ call.iter = call.num_iterations
    /\ call' = [call EXCEPT
           !.phase = IF call.phase = "pass1" THEN "eval1" ELSE "eval2",
           !.deal_ix = 1, !.util = RZero, !.visited = <<>>]
    /\ UNCHANGED <<heap, stack, ret, result, fuel>>
    /\ Unchanged_object

\* b_1 is set; self.infoset_dict = deepcopy(info_dict_copy); pass 2 begins.
get_exploitability_restore ==
    /\ call.op = "get_exploitability" /\ call.phase = "eval1" /\ EvaluateDone
    /\ LET copy == deepcopy(heap, info_dict_copy, Live)
       IN  /\ infoset_dict' = copy.ref
           /\ heap' = Collect(copy.heap, {copy.ref, infoset_data, info_dict_copy})
    /\ call' = [call EXCEPT !.phase = "pass2", !.iter = 0, !.b_1 = evaluate_result]
    /\ UNCHANGED <<game, infoset_data, info_dict_copy, file, stack, ret,
                   result, fuel>>

\* b_2 is set; self.infoset_dict = deepcopy(info_dict_copy); return b_1 - b_2.
get_exploitability_return ==
    /\ call.op = "get_exploitability" /\ call.phase = "eval2" /\ EvaluateDone
    /\ LET copy == deepcopy(heap, info_dict_copy, Live)
       IN  /\ infoset_dict' = copy.ref
           /\ heap' = Collect(copy.heap, {copy.ref, infoset_data})
    /\ info_dict_copy' = NoRef
    /\ Finish("get_exploitability", RSub(call.b_1, evaluate_result))
    /\ UNCHANGED <<game, infoset_data, file, stack, ret, fuel>>

(***************************************************************************)
(* save_dict and load_dict, on one file name.                              *)
(***************************************************************************)
save_dict ==
    /\ Idle /\ fuel >= 1
    /\ file' = [exists |-> TRUE, dict |-> Store]
    /\ result' = Returned("save_dict", RZero)
    /\ fuel' = fuel - 1
    /\ UNCHANGED <<game, heap, infoset_dict, infoset_data, info_dict_copy,
                   call, stack, ret>>

\* output = pickle.load(a_file): a new dictionary object; infoset_dict and
\* infoset_data are both set to it.
load_dict ==
    /\ Idle /\ fuel >= 1 /\ file.exists
    /\ LET output == CHOOSE x \in Refs \ Live : \A y \in Refs \ Live : x <= y
       IN  /\ infoset_dict' = output
           /\ infoset_data' = output
           /\ heap' = Collect([heap EXCEPT ![output] = file.dict], {output})
    /\ result' = Returned("load_dict", RZero)
    /\ fuel' = fuel - 1
    /\ UNCHANGED <<game, info_dict_copy, file, call, stack, ret>>

Next ==
    \/ \E n \in 1..MaxIterations : train_chance_call(n)
    \/ train_chance_iter
    \/ train_chance_util
    \/ train_chance_return
    \/ \E n \in 1..MaxIterations : train_external_call(n)
    \/ train_external_iter
    \/ train_external_util
    \/ train_external_return
    \/ evaluate_call
    \/ evaluate_deal
    \/ evaluate_return
    \/ \E n \in 0..MaxIterations : get_exploitability_call(n)
    \/ get_exploitability_iter
    \/ get_exploitability_next
    \/ get_exploitability_evaluate
    \/ get_exploitability_restore
    \/ get_exploitability_return
    \/ save_dict
    \/ load_dict
    \/ chance_cfr_terminal
    \/ chance_cfr_single_call
    \/ chance_cfr_single_return
    \/ chance_cfr_enter
    \/ chance_cfr_loop_call
    \/ chance_cfr_loop_return
    \/ chance_cfr_finish
    \/ external_cfr_terminal
    \/ external_cfr_single_call
    \/ external_cfr_single_return
    \/ external_cfr_enter
    \/ external_cfr_loop_call
    \/ external_cfr_loop_return
    \/ external_cfr_finish
    \/ external_cfr_sample_call
    \/ external_cfr_sample_return

Spec == Init /\ [][Next]_vars


(***************************************************************************)
(* Properties.                                                             *)
(***************************************************************************)
Frames == {stack[i] : i \in 1..Len(stack)}

\* A traversal of fn is under way, or has just returned to its caller.
InTraversal(fn) ==
    /\ call.roots # <<>>
    /\ \/ stack # <<>> /\ stack[1].fn = fn
       \/ stack = <<>> /\ ret # NoRet
            /\ (fn = "chance_cfr") = (call.op = "train_chance")

\* evaluate() run once more on dictionary dict: the sum of the deals' values
\* from deal ix on, and the dictionary it leaves.
RECURSIVE EvaluateFrom(_, _, _)
EvaluateFrom(dict, ix, util) ==
    IF ix > Len(evaluate_deals(game)) THEN [util |-> util, dict |-> dict]
    ELSE LET sub == evaluate_helper(game, dict,
                        sample_new_game(evaluate_deals(game)[ix]), ROne)
         IN  EvaluateFrom(sub.dict, ix + 1, RAdd(util, sub.value))

\* C1: evaluate() is deterministic and side-effect-free: when it returns, the
\* store has the key set and the vectors it had when the call began, and a
\* second call right after it returns the same value and again leaves the
\* store as it found it.
C1_EvaluatePure ==
    result.op = "evaluate" =>
        /\ Store = result.entry_dict
        /\ LET again == EvaluateFrom(Store, 1, RZero)
           IN  /\ RDiv(again.util, RInt(hand_prob(game))) = result.value
               /\ again.dict = Store

\* C2: at every multi-action node that chance_cfr and external_cfr enumerate,
\* the sign multiplied onto the value of the successor for the action at ix is
\* +1 exactly when the successor's player is the node's player and -1 exactly
\* when it is not, whatever the earlier actions of the node did; and every
\* walk of evaluate_helper used the expected sign at each of its nodes.
C2_SignPerAction ==
    /\ \A i \in 1..(Len(stack) - 1) :
           stack[i].pc = "loop_wait" =>
               /\ stack[i + 1].game_state = get_next_game_state(game,
                      stack[i].game_state, Actions(stack[i])[stack[i].ix])
               /\ stack[i].payoff =
                      ExpectedSign(stack[i].game_state, stack[i + 1].game_state)
    /\ call.sign_ok

\* C3: get_exploitability keeps the snapshot it took on entry, and the store
\* equals the store of entry (key set and vectors) when the second pass
\* begins and when the call returns.
C3_SnapshotRestored ==
    /\ info_dict_copy # NoRef => heap[info_dict_copy] = call.entry_dict
    /\ (call.op = "get_exploitability" /\ call.phase = "pass2"
            /\ call.iter = 0 /\ stack = <<>> /\ ret = NoRet)
           => Store = call.entry_dict
    /\ result.op = "get_exploitability" => Store = result.entry_dict

\* A get_exploitability call with passes has returned, and what the first
\* pass wrote is not in the store.
C3_Witness ==
    /\ result.op = "get_exploitability" /\ result.num_iterations >= 1
    /\ DOMAIN heap[infoset_data] # DOMAIN Store

\* The player a running external traversal updates.
UpdatePlayer == call.roots[Len(call.roots)].update_player

\* C4: in an external_cfr traversal for update player p, a multi-action node
\* of the other player has sampled one action with positive probability and
\* made exactly one recursive call once it is past its start, never more; and
\* throughout the traversal every infoset of the other player that was in the
\* store at its start has the vectors it had then, every such infoset created
\* since is all-zero, and no key of the start is gone.
C4_SampledBranch ==
    /\ \A f \in Frames :
           (f.fn = "external_cfr" /\ ~f.game_state.terminal
                /\ Len(Actions(f)) > 1
                /\ f.game_state.player # f.update_player) =>
               /\ f.pc \in {"start", "sampled"}
               /\ f.pc = "start" => f.nchild = 0
               /\ f.pc = "sampled" =>
                      f.nchild = 1 /\ RPos(f.strategy[f.ix])
    /\ InTraversal("external_cfr") =>
           /\ DOMAIN call.trav_entry \subseteq DOMAIN Store
           /\ \A k \in DOMAIN Store :
                  k[1] # UpdatePlayer =>
                      Store[k] = IF k \in DOMAIN call.trav_entry
                                 THEN call.trav_entry[k] ELSE Infoset(k)

\* A sampled node whose infoset was in the store with regrets from an earlier
\* traversal, drawn under a strategy that is not uniform.
C4_Witness ==
    /\ InTraversal("external_cfr")
    /\ \E f \in Frames :
           /\ f.pc = "sampled" /\ f.existed
           /\ Store[f.info_key].cumulative_regrets # Zeros(Len(Actions(f)))
           /\ f.strategy # Uniform(Len(Actions(f)))

RECURSIVE SumValues(_)
SumValues(roots) ==
    IF roots = <<>> THEN RZero
    ELSE RAdd(Head(roots).value[1], SumValues(Tail(roots)))

\* C5: train_external(num_iterations) has made exactly 2 * num_iterations root
\* traversals when it returns, each on a state fresh from sample_new_game with
\* reach probabilities [1, 1], for update players 0, 1, 0, 1, ..., and returns
\* the sum of their values divided by 2 * num_iterations.
C5_TrainExternal ==
    result.op = "train_external" =>
        LET n == result.num_iterations
            roots == result.roots
        IN  /\ Len(roots) = 2 * n
            /\ \A k \in 1..Len(roots) :
                   /\ roots[k].update_player = (k - 1) % 2
                   /\ roots[k].reach_probs = <<ROne, ROne>>
                   /\ roots[k].fresh
                   /\ roots[k].value # NoRet
            /\ result.value = RDiv(SumValues(roots), RInt(2 * n))

\* train_external(2) has returned a value that is not zero.
C5_Witness ==
    /\ result.op = "train_external" /\ result.num_iterations = 2
    /\ result.value # RZero

\* Every ordered pair of disjoint hands of the game, each hand sorted.
AllDeals(g) ==
    LET cards == SeqToSet(g.deck2)
        Hands == {h \in SUBSET cards : Cardinality(h) = g.handsize}
        AsSeq(h) == SelectSeq(g.deck2, LAMBDA c : c \in h)
    IN  {<<AsSeq(pair[1]), AsSeq(pair[2])>> :
             pair \in {q \in Hands \X Hands : q[1] \cap q[2] = {}}}

\* C6: when evaluate() has run through its loops it has visited every ordered
\* pair of disjoint hands exactly once, and their number is the divisor
\* hand_prob.
C6_DealsOnce ==
    EvaluateDone =>
        /\ \A i, j \in 1..Len(call.visited) :
               call.visited[i] = call.visited[j] => i = j
        /\ SeqToSet(call.visited) = AllDeals(game)
        /\ Len(call.visited) = hand_prob(game)

\* evaluate() is through a game whose deals leave a card undealt.
C6_Witness ==
    /\ EvaluateDone
    /\ game.handsize = 2 /\ Len(game.deck2) > 2 * game.handsize

Keys == DOMAIN heap[infoset_dict]

\* C7 as stated: the store is empty after construction, and no step other
\* than the two snapshot restores of get_exploitability removes a key.
C7_OnlyRestoresRemove ==
    /\ Keys = {}
    /\ [][(~get_exploitability_restore /\ ~get_exploitability_return)
             => Keys \subseteq Keys']_vars

\* C7 as amended: the store is empty after construction, and no step other
\* than the two snapshot restores of get_exploitability and load_dict removes
\* a key; so the key set only grows over train_chance and train_external.
C7_KeysGrow ==
    /\ Keys = {}
    /\ [][(~get_exploitability_restore /\ ~get_exploitability_return
              /\ ~load_dict)
             => Keys \subseteq Keys']_vars

\* A training traversal has added keys to a store that had keys already.
C7_Witness ==
    /\ call.op \in {"train_chance", "train_external"}
    /\ DOMAIN call.trav_entry # {}
    /\ DOMAIN call.trav_entry \subseteq Keys
    /\ DOMAIN call.trav_entry # Keys

\* C8: wherever chance_cfr, external_cfr or evaluate_helper has fetched an
\* infoset, the node's number of possible actions is the action count of the
\* key and the length of the infoset's vectors; every entry of the store has
\* vectors of its key's action count.
C8_ActionCountFixed ==
    /\ \A f \in Frames :
           f.info_key # <<>> =>
               /\ Len(Actions(f)) = f.info_key[4]
               /\ Len(Store[f.info_key].cumulative_regrets) = Len(Actions(f))
               /\ Len(Store[f.info_key].strategy_sum) = Len(Actions(f))
    /\ call.count_ok
    /\ \A k \in Keys :
           /\ Len(Store[k].cumulative_regrets) = k[4]
           /\ Len(Store[k].strategy_sum) = k[4]

\* A node has fetched an infoset that an earlier traversal created.
C8_Witness ==
    \E f \in Frames :
        f.existed /\ Store[f.info_key].strategy_sum # Zeros(f.info_key[4])

\* C9: at a multi-action node that chance_cfr or external_cfr enumerates, the
\* reach vector the node holds is the one it was entered with, before, between
\* and after the recursive calls, and the vector passed for the action at ix
\* is that vector with the acting player's component multiplied by the
\* action's probability and the other component as it was.
C9_ReachVectors ==
    \A i \in 1..Len(stack) :
        LET f == stack[i]
            player == f.game_state.player
        IN  /\ f.pc \in {"loop", "loop_wait"} => f.reach_probs = f.reach_in
            /\ (f.pc = "loop_wait" /\ i < Len(stack)) =>
                   /\ stack[i + 1].reach_in[player + 1] =
                          RMul(f.reach_in[player + 1], f.strategy[f.ix])
                   /\ stack[i + 1].reach_in[Opponent(player) + 1] =
                          f.reach_in[Opponent(player) + 1]

\* The second action of a node entered with a reach vector other than [1, 1]
\* under a strategy that is not uniform.
C9_Witness ==
    \E i \in 1..(Len(stack) - 1) :
        /\ stack[i].pc = "loop_wait" /\ stack[i].ix = 2
        /\ stack[i].reach_in # <<ROne, ROne>>
        /\ stack[i].strategy # Uniform(Len(Actions(stack[i])))
        /\ RPos(stack[i].strategy[1])

\* C10: between public operations, the store that infoset_data holds has the
\* key set and the vectors of infoset_dict.
C10_DataIsDict == Idle => heap[infoset_data] = heap[infoset_dict]

====
